---------------------------- MODULE Spec2Model ----------------------------
(***************************************************************************)
(* Model of src/openai_streaming_tools.py: the generator ask_question,     *)
(* which appends to the process-wide list `history`, reads a primary       *)
(* completion stream, reassembles streamed tool-call arguments, runs the   *)
(* handler fun_2 on them, and optionally reads a follow-up stream.         *)
(*                                                                         *)
(* Text is modelled as sequences of lexemes.  The JSON lexemes are         *)
(*   "{"  "}"  ":"  ","   the digit "1"   and the quoted strings "a", "b"  *)
(* (a quoted string is one lexeme; it serves as an object key and as a     *)
(* string value).                                                          *)
(***************************************************************************)
EXTENDS Integers, Sequences, FiniteSets, TLC

(***************************************************************************)
(* Bounds of the model.                                                    *)
(***************************************************************************)
\* inputs of one run of the program: the questions asked and the chunks
\* delivered by the streams (primary and follow-up)
MaxInputs == 3
\* largest value the millisecond clock reaches
MaxClock == 1
\* most items a handler yields when the loop of lines 179-209 is run on
\* items other than those of fun_2
MaxItems == 3

None == "None"

(***************************************************************************)
(* json.loads on the lexeme alphabet.                                      *)
(***************************************************************************)
Digits == {"1"}
Strings == {"a", "b"}

IsNumber(s) == Len(s) > 0 /\ \A i \in 1..Len(s) : s[i] \in Digits
IsString(s) == Len(s) = 1 /\ s[1] \in Strings
IsScalar(s) == IsNumber(s) \/ IsString(s)

\* index of the first "," of s at or after position i, Len(s)+1 when none
RECURSIVE NextComma(_, _)
NextComma(s, i) ==
    IF i > Len(s) THEN Len(s) + 1
    ELSE IF s[i] = "," THEN i
    ELSE NextComma(s, i + 1)

\* one object member  key ":" scalar
IsMember(s) == Len(s) >= 3 /\ s[1] \in Strings /\ s[2] = ":"
               /\ IsScalar(SubSeq(s, 3, Len(s)))

\* the members of a comma-separated list, as a sequence of <<key, value>>;
\* <<"error">> is appended when a piece is not a member
RECURSIVE Members(_)
Members(s) ==
    LET c    == NextComma(s, 1)
        head == SubSeq(s, 1, c - 1)
        this == IF IsMember(head)
                THEN <<head[1], SubSeq(head, 3, Len(head))>>
                ELSE <<"error", <<>>>>
    IN  IF c > Len(s) THEN <<this>>
        ELSE <<this>> \o Members(SubSeq(s, c + 1, Len(s)))

\* a dict built from the members in order: a repeated key keeps its first
\* position and takes its last value
RECURSIVE DictOf(_)
DictOf(ms) ==
    IF ms = <<>> THEN <<>>
    ELSE LET front == DictOf(SubSeq(ms, 1, Len(ms) - 1))
             m     == ms[Len(ms)]
         IN  IF \E i \in 1..Len(front) : front[i][1] = m[1]
             THEN [i \in 1..Len(front) |->
                      IF front[i][1] = m[1] THEN m ELSE front[i]]
             ELSE Append(front, m)

NoValue == [kind |-> "none", members |-> <<>>, scalar |-> <<>>]

\* json.loads(s): ok is FALSE where json.loads raises JSONDecodeError
loads(s) ==
    IF IsScalar(s)
    THEN [ok |-> TRUE,
          val |-> [kind |-> IF IsNumber(s) THEN "num" ELSE "str",
                   members |-> <<>>, scalar |-> s]]
    ELSE IF Len(s) >= 2 /\ s[1] = "{" /\ s[Len(s)] = "}"
    THEN LET inner == SubSeq(s, 2, Len(s) - 1)
             ms    == IF inner = <<>> THEN <<>> ELSE Members(inner)
         IN  IF \E i \in 1..Len(ms) : ms[i][1] = "error"
             THEN [ok |-> FALSE, val |-> NoValue]
             ELSE [ok |-> TRUE,
                   val |-> [kind |-> "obj", members |-> DictOf(ms),
                            scalar |-> <<>>]]
    ELSE [ok |-> FALSE, val |-> NoValue]

\* json.dumps of a parsed value, with the default separators ", " and ": "
RECURSIVE DumpMembers(_)
DumpMembers(ms) ==
    IF ms = <<>> THEN <<>>
    ELSE LET m == ms[1]
         IN  <<m[1], ":", " ">> \o m[2]
             \o (IF Len(ms) > 1 THEN <<",", " ">> ELSE <<>>)
             \o DumpMembers(Tail(ms))

dumps(v) ==
    IF v.kind = "obj" THEN <<"{">> \o DumpMembers(v.members) \o <<"}">>
    ELSE v.scalar

(***************************************************************************)
(* Values a handler yields and the caller sees.  A display value is None,  *)
(* a string (body: its text) or a mapping (body: its entries in order).    *)
(***************************************************************************)
NoneValue == [kind |-> "none", body |-> <<>>]
Str(s) == [kind |-> "str", body |-> s]
Map(s) == [kind |-> "map", body |-> s]

\* only None counts as an empty display
Truthy_notNone(d) == d.kind # "none"
\* Python truthiness of a display value: None, "" and {} are falsy
Truthy(d) == d.kind # "none" /\ d.body # <<>>

\* a raw item that is not a dict
Plain(v) == [isMap |-> FALSE, val |-> v, keys |-> <<>>,
             display |-> NoneValue, store |-> FALSE]
\* a raw dict with the given keys in insertion order; display and store are
\* read only when the key is present
Dict(ks, d, st) == [isMap |-> TRUE, val |-> NoneValue, keys |-> ks,
                    display |-> d, store |-> st]

HasKey(r, k) == \E i \in 1..Len(r.keys) : r.keys[i] = k

\* the keys of r other than store, in order (display_data of line 194)
RECURSIVE WithoutStore(_)
WithoutStore(ks) ==
    IF ks = <<>> THEN <<>>
    ELSE IF Head(ks) = "store" THEN WithoutStore(Tail(ks))
    ELSE <<Head(ks)>> \o WithoutStore(Tail(ks))

\* a dict without display always gets the dict of its other keys
normalize_emptyDict(r) ==
    IF ~r.isMap
    THEN Dict(<<"display", "store">>, r.val, FALSE)
    ELSE LET st  == IF HasKey(r, "store") THEN r.store ELSE FALSE
             ks1 == IF HasKey(r, "store") THEN r.keys
                    ELSE Append(r.keys, "store")
             d   == IF HasKey(r, "display") THEN r.display
                    ELSE Map(WithoutStore(ks1))
             ks2 == IF HasKey(r, "display") THEN ks1
                    ELSE Append(ks1, "display")
         IN  Dict(ks2, d, st)
\* lines 180-199: yield_part after the defaults have been filled in
normalize(r) ==
    IF ~r.isMap
    THEN Dict(<<"display", "store">>, r.val, FALSE)
    ELSE LET st  == IF HasKey(r, "store") THEN r.store ELSE FALSE
             ks1 == IF HasKey(r, "store") THEN r.keys
                    ELSE Append(r.keys, "store")
             dd  == WithoutStore(ks1)
             d   == IF HasKey(r, "display") THEN r.display
                    ELSE IF dd # <<>> THEN Map(dd) ELSE Str(<<>>)
             ks2 == IF HasKey(r, "display") THEN ks1
                    ELSE Append(ks1, "display")
         IN  Dict(ks2, d, st)

\* only the items that were shown are stored
Accumulate_ifShown(chunks, yp) ==
    IF yp.store /\ Truthy(yp.display) THEN Append(chunks, yp.display) ELSE chunks
\* lines 207-209: the accumulator after one normalized item
Accumulate(chunks, yp) ==
    IF yp.store THEN Append(chunks, yp.display) ELSE chunks

\* json.dumps(tool_output_chunks, ensure_ascii=False)
DumpDisplay(d) ==
    IF d.kind = "none" THEN <<"null">>
    ELSE IF d.kind = "str" THEN <<"\"">> \o d.body \o <<"\"">>
    ELSE <<"{">> \o d.body \o <<"}">>

RECURSIVE DumpItems(_)
DumpItems(ds) ==
    IF ds = <<>> THEN <<>>
    ELSE DumpDisplay(Head(ds))
         \o (IF Len(ds) > 1 THEN <<",", " ">> ELSE <<>>)
         \o DumpItems(Tail(ds))

dumpsList(ds) == <<"[">> \o DumpItems(ds) \o <<"]">>

(***************************************************************************)
(* The handler fun_2 (and fun_1, which it delegates to).                   *)
(***************************************************************************)
Lookup(args, k) ==
    LET i == CHOOSE i \in 1..Len(args.members) : args.members[i][1] = k
    IN  args.members[i][2]

ArgKeys(args) == {args.members[i][1] : i \in 1..Len(args.members)}

\* fun_2(**args) binds its parameters when called: TypeError unless args
\* is a mapping with exactly the keys a and b
fun_2_binds(args) == args.kind = "obj" /\ ArgKeys(args) = {"a", "b"}

\* a+b of line 71 raises TypeError for an int and a str
CanAdd(x, y) == IsNumber(x) <=> IsNumber(y)

RECURSIVE NumVal(_)
NumVal(s) == IF s = <<>> THEN 0
             ELSE 10 * NumVal(SubSeq(s, 1, Len(s) - 1)) + 1

\* the text of a+b: the sum of two ints, the concatenation of two strs
Sum(x, y) == IF IsNumber(x) THEN <<ToString(NumVal(x) + NumVal(y))>>
             ELSE x \o y

fun_1 ==
    << Dict(<<"display", "store">>, Str(<<"fun_1fun_1fun_1fun_1">>), TRUE),
       Plain(Str(<<"LAST OF: fun_1">>)) >>

\* the items fun_2 yields before it evaluates a+b
fun_2_first ==
    fun_1 \o
    << Plain(Str(<<"fun_2 plain string test">>)),
       Dict(<<"display", "store">>, Str(<<"fun_2 stored">>), TRUE),
       Dict(<<"display", "store">>, Str(<<"fun_2 not stored">>), FALSE),
       Dict(<<"display", "code", "store">>,
            Map(<<"DICT fun_2", "success", "result">>), TRUE),
       Plain(NoneValue),
       Dict(<<>>, NoneValue, FALSE) >>

fun_2_last(args) ==
    Dict(<<"display", "store">>,
         Str(<<"result = ">> \o Sum(Lookup(args, "a"), Lookup(args, "b"))),
         TRUE)

\* number of items of a complete run of fun_2
fun_2_len == Len(fun_2_first) + 1

\* next(handler) for the n-th item raises TypeError (line 71)
fun_2_raises(args, n) ==
    n = fun_2_len /\ ~CanAdd(Lookup(args, "a"), Lookup(args, "b"))

\* the n-th item of fun_2(**args), 1 <= n <= fun_2_len
fun_2_item(args, n) ==
    IF n <= Len(fun_2_first) THEN fun_2_first[n] ELSE fun_2_last(args)

(***************************************************************************)
(* What the completion provider streams.                                   *)
(***************************************************************************)
\* call identifiers: one supplied by the stream, one synthesized from the
\* clock (line 151), or none
NoId == [src |-> "none", n |-> 0]
StreamId(c) == [src |-> "stream", n |-> c]
ClockId(t) == [src |-> "clock", n |-> t]

\* argument fragments:  {"a":1   ,"b":1}   ,"b":"b"}   }   {"a":1,"b":1}
FragA == <<"{", "a", ":", "1">>
FragB == <<",", "b", ":", "1", "}">>
FragC == <<",", "b", ":", "b", "}">>
FragE == <<"}">>
FragW == FragA \o FragB
Fragments == {FragA, FragB, FragC, FragE, FragW}

\* one entry of choice.delta.tool_calls.  index is the provider's number of
\* the call the fragment belongs to; ask_question never reads it.
Delta(c, nm, id, piece) ==
    [index |-> c, name |-> nm, id |-> id, arguments |-> piece]
\* the opening delta of a call: name and id, no argument text yet
Header(c) == Delta(c, "fun_2", StreamId(c), <<>>)
\* argument text, with or without the name and id of the call
Frag(c, f, sup) ==
    IF sup THEN Delta(c, "fun_2", StreamId(c), f) ELSE Delta(c, None, NoId, f)

\* the deltas that arrive alone in a chunk
ToolCallDeltas ==
    {Header(0), Frag(0, FragW, TRUE), Frag(1, FragA, FALSE)}
    \cup {Frag(0, f, FALSE) : f \in Fragments}

\* a chunk that carries two complete calls
TwoCalls == <<Frag(0, FragW, TRUE), Frag(1, FragW, FALSE)>>
\* a chunk that carries two complete calls, neither with an id or a name
TwoBareCalls == <<Frag(0, FragW, FALSE), Frag(1, FragW, FALSE)>>

Chunk(ch, txt, tcs) == [choices |-> ch, content |-> txt, tool_calls |-> tcs]
NoChoices == Chunk(FALSE, <<>>, <<>>)
TextChunk == Chunk(TRUE, <<"t">>, <<>>)

\* chunks of the primary stream
Chunks ==
    {NoChoices, TextChunk}
    \cup {Chunk(TRUE, <<>>, <<d>>) : d \in ToolCallDeltas}
    \cup {Chunk(TRUE, <<>>, TwoCalls), Chunk(TRUE, <<>>, TwoBareCalls)}

\* chunks of the follow-up stream, which is requested without tools
FollowChunks == {NoChoices, TextChunk}

\* what a call of the client or a read of a stream can raise
StreamErrors == {"APIError", "KeyboardInterrupt"}

Questions == {<<"q">>}

(***************************************************************************)
(* State.                                                                  *)
(***************************************************************************)
Asks == 1..MaxInputs

VARIABLES
    history,    \* the module-level list of messages (line 97)
    owner,      \* owner[i]: the invocation that appended history[i]
    frame,      \* frame[p]: position and locals of invocation p
    emitted,    \* emitted[p]: what invocation p has yielded to its caller
    requests,   \* the calls of client.chat.completions.create, in order
    fed,        \* fed[p]: the tool-call deltas p has processed
    clock,      \* the last value of int(time.time() * 1000)
    used,       \* questions asked and chunks delivered so far
    loop,       \* the loop of lines 179-209 run on an arbitrary handler
    overlap     \* two invocations have been active at the same time

vars == <<history, owner, frame, emitted, requests, fed, clock, used, loop,
          overlap>>

\* the four kinds of message ask_question appends
UserTurn(q) ==
    [role |-> "user", content |-> q, call_id |-> NoId, name |-> None]
\* the tool call recorded without the id of the call
ToolCallTurn_noId(id, nm, args) ==
    [role |-> "assistant_tool_call", content |-> dumps(args),
     call_id |-> NoId, name |-> nm]
ToolCallTurn(id, nm, args) ==
    [role |-> "assistant_tool_call", content |-> dumps(args),
     call_id |-> id, name |-> nm]
ToolResultTurn(id, nm, chunks) ==
    [role |-> "tool", content |-> dumpsList(chunks),
     call_id |-> id, name |-> nm]
AssistantTextTurn(collected) ==
    [role |-> "assistant", content |-> collected,
     call_id |-> NoId, name |-> None]

\* what the caller receives
TextOut(d) == [src |-> "text", val |-> Str(d)]
ToolOut(d) == [src |-> "tool", val |-> d]
Sentinel == [src |-> "sentinel", val |-> Str(<<"\n[INTERRUPTED]\n">>)]

\* the loop of lines 179-209 before the first item of a handler that yields
\* the raw items its: the items left, the normalized items handled so far,
\* the display values yielded, and the locals of the loop
NewLoop(its) ==
    [pc |-> "next", items |-> its, seen |-> <<>>, shown |-> <<>>,
     yield_part |-> Plain(NoneValue), tool_output_chunks |-> <<>>,
     tool_output_str |-> <<>>]

NewFrame ==
    [pc |-> "idle", phase |-> 0, exc |-> None,
     collected |-> <<>>, partial_args |-> <<>>,
     tool_name |-> None, tool_id |-> NoId, tool_output_chunks |-> <<>>,
     args |-> NoValue, calls |-> <<>>, hpos |-> 0,
     delta |-> <<>>, yield_part |-> Plain(NoneValue)]

Init ==
    /\ history = <<>>
    /\ owner = <<>>
    /\ frame = [p \in Asks |-> NewFrame]
    /\ emitted = [p \in Asks |-> <<>>]
    /\ requests = <<>>
    /\ fed = [p \in Asks |-> <<>>]
    /\ clock = 0
    /\ used = 0
    /\ loop = NewLoop(<<>>)
    /\ overlap = FALSE

Finished(p) == frame[p].pc \in {"done", "raised"}

\* history.append by invocation p
Appended(p, turns) ==
    /\ history' = history \o turns
    /\ owner' = owner \o [i \in 1..Len(turns) |-> p]

\* the closing message is appended only when some text was collected
Finalize_skipEmpty(p, f) ==
    IF f.collected = <<>> THEN <<>> ELSE <<AssistantTextTurn(f.collected)>>
\* line 250, the finally clause: the messages it appends for invocation p
Finalize(p, f) == <<AssistantTextTurn(f.collected)>>

\* no except clause: KeyboardInterrupt leaves ask_question like any other
\* exception
Raised_noExcept(p, f, e, before) ==
    /\ frame' = [frame EXCEPT ![p] = [f EXCEPT !.pc = "raised", !.exc = e]]
    /\ emitted' = emitted
    /\ Appended(p, before \o Finalize(p, f))
\* lines 247-250 for an exception e raised in the try body after the turns
\* `before` were appended: KeyboardInterrupt is caught and the sentinel
\* yielded; anything else runs the finally clause and leaves ask_question
Raised(p, f, e, before) ==
    IF e = "KeyboardInterrupt"
    THEN /\ frame' = [frame EXCEPT ![p] = [f EXCEPT !.pc = "y_int", !.exc = e]]
         /\ emitted' = [emitted EXCEPT ![p] = Append(@, Sentinel)]
         /\ Appended(p, before)
    ELSE /\ frame' = [frame EXCEPT ![p] = [f EXCEPT !.pc = "raised", !.exc = e]]
         /\ emitted' = emitted
         /\ Appended(p, before \o Finalize(p, f))

\* line 110: the first next() on the generator
Ask(p, q) ==
    /\ frame[p].pc = "idle"
    /\ Appended(p, <<UserTurn(q)>>)
    /\ used < MaxInputs
    /\ used' = used + 1
    /\ frame' = [frame EXCEPT ![p].pc = "open"]
    /\ UNCHANGED <<emitted, requests, fed, clock>>

Request(p, kind) == [ask |-> p, kind |-> kind, messages |-> Len(history)]

\* lines 114-131
OpenPrimary(p) ==
    /\ frame[p].pc = "open"
    /\ requests' = Append(requests, Request(p, "primary"))
    /\ frame' = [frame EXCEPT ![p] = [NewFrame EXCEPT !.pc = "pull", !.phase = 1]]
    /\ UNCHANGED <<history, owner, emitted, fed, clock, used>>

\* line 114 raises: it is outside the try statement
OpenPrimaryFails(p, e) ==
    /\ frame[p].pc = "open"
    /\ requests' = Append(requests, Request(p, "primary"))
    /\ frame' = [frame EXCEPT ![p].pc = "raised", ![p].exc = e]
    /\ UNCHANGED <<history, owner, emitted, fed, clock, used>>

\* where the loop of line 148 continues with the deltas left
AfterCalls(f, rest) ==
    IF rest # <<>> THEN [f EXCEPT !.pc = "calls", !.calls = rest]
    ELSE [f EXCEPT !.pc = IF f.phase = 1 THEN "pull" ELSE "f_pull",
                   !.calls = <<>>]

\* lines 134-147: next(stream) returns a chunk
PullChunk(p, ch) ==
    LET f == frame[p] IN
    /\ f.pc = "pull"
    /\ used < MaxInputs
    /\ used' = used + 1
    /\ IF ~ch.choices
       THEN UNCHANGED <<frame, emitted>>
       ELSE IF ch.content # <<>>
       THEN /\ emitted' = [emitted EXCEPT ![p] = Append(@, TextOut(ch.content))]
            /\ frame' = [frame EXCEPT ![p] =
                  [f EXCEPT !.pc = "y_text", !.delta = ch.content,
                            !.calls = ch.tool_calls]]
       ELSE /\ emitted' = emitted
            /\ frame' = [frame EXCEPT ![p] = AfterCalls(f, ch.tool_calls)]
    /\ UNCHANGED <<history, owner, requests, fed, clock>>

\* the delta is forwarded but not added to collected
ResumeText_noCollect(p) ==
    LET f == frame[p] IN
    /\ f.pc = "y_text"
    /\ frame' = [frame EXCEPT ![p] = AfterCalls([f EXCEPT !.delta = <<>>], f.calls)]
    /\ UNCHANGED <<history, owner, emitted, requests, fed, clock, used>>
\* lines 144 and 245: resumed after yield delta
ResumeText(p) ==
    LET f == frame[p] IN
    /\ f.pc = "y_text"
    /\ frame' = [frame EXCEPT ![p] =
          AfterCalls([f EXCEPT !.collected = @ \o f.delta, !.delta = <<>>],
                     f.calls)]
    /\ UNCHANGED <<history, owner, emitted, requests, fed, clock, used>>

\* next(stream) raises StopIteration at line 134; line 225 decides on the
\* follow-up request
\* the follow-up is requested for every recorded tool name
FollowupGate_nameOnly(chunks, nm) == nm # None
\* the follow-up is requested unconditionally
FollowupGate_always(chunks, nm) == TRUE
FollowupGate(chunks, nm) == chunks # <<>> /\ nm # None

EndPrimary(p) ==
    LET f == frame[p] IN
    /\ f.pc = "pull"
    /\ IF FollowupGate(f.tool_output_chunks, f.tool_name)
       THEN /\ frame' = [frame EXCEPT ![p].pc = "f_open"]
            /\ UNCHANGED <<history, owner>>
       ELSE /\ frame' = [frame EXCEPT ![p].pc = "done"]
            /\ Appended(p, Finalize(p, f))
    /\ UNCHANGED <<emitted, requests, fed, clock, used>>

\* next(stream) or next(followup) raises e (lines 134, 240)
StreamRaises(p, e) ==
    LET f == frame[p] IN
    /\ f.pc \in {"pull", "f_pull"}
    /\ Raised(p, f, e, <<>>)
    /\ UNCHANGED <<requests, fed, clock, used>>

\* lines 150-151: the name and id of the delta, or the defaults
NameOf(tc) == IF tc.name # None THEN tc.name ELSE "worlds"
IdOf(tc, t) == IF tc.id # NoId THEN tc.id ELSE ClockId(t)

\* lines 148-179: one delta of choice.delta.tool_calls, up to the call of
\* fun_2; t is the clock value read when the delta has no id
NextToolCall(p, t) ==
    LET f    == frame[p]
        tc   == Head(f.calls)
        rest == Tail(f.calls)
        g    == [f EXCEPT !.tool_name = NameOf(tc), !.tool_id = IdOf(tc, t)]
        buf  == f.partial_args \o tc.arguments
        r    == loads(buf)
        h    == [g EXCEPT !.partial_args = buf]
        call == ToolCallTurn(h.tool_id, h.tool_name, r.val)
        entry(hit) == [index |-> tc.index, name |-> tc.name, id |-> tc.id,
                       piece |-> tc.arguments,
                       hit |-> hit, args |-> IF hit THEN r.val ELSE NoValue]
    IN
    /\ f.pc = "calls"
    /\ IF tc.id # NoId THEN t = clock
       ELSE t \in clock..(IF clock < MaxClock THEN clock + 1 ELSE clock)
    /\ clock' = t
    /\ IF tc.arguments = <<>>
       THEN /\ frame' = [frame EXCEPT ![p] = AfterCalls(g, rest)]
            /\ fed' = [fed EXCEPT ![p] = Append(@, entry(FALSE))]
            /\ UNCHANGED <<history, owner, emitted>>
       ELSE IF ~r.ok
       THEN /\ frame' = [frame EXCEPT ![p] = AfterCalls(h, rest)]
            /\ fed' = [fed EXCEPT ![p] = Append(@, entry(FALSE))]
            /\ UNCHANGED <<history, owner, emitted>>
       ELSE /\ fed' = [fed EXCEPT ![p] = Append(@, entry(TRUE))]
            /\ IF fun_2_binds(r.val)
               THEN /\ frame' = [frame EXCEPT ![p] =
                          [h EXCEPT !.pc = "h_next", !.args = r.val,
                                    !.hpos = 1, !.calls = rest]]
                    /\ Appended(p, <<call>>)
                    /\ emitted' = emitted
               ELSE Raised(p, [h EXCEPT !.args = r.val], "TypeError", <<call>>)
    /\ UNCHANGED <<requests, used>>

\* the argument buffer is kept after the dispatch
AfterDispatch_noReset(f) == [f EXCEPT !.hpos = 0]
\* line 219: the argument buffer is reset once the tool message is appended
AfterDispatch(f) == [f EXCEPT !.partial_args = <<>>, !.hpos = 0]

\* the tool message is appended without pulling the last item of the handler
HandlerNext_early(p) ==
    LET f  == frame[p]
        yp == normalize(fun_2_item(f.args, f.hpos))
    IN
    /\ f.pc = "h_next"
    /\ IF f.hpos >= fun_2_len
       THEN /\ Appended(p, <<ToolResultTurn(f.tool_id, f.tool_name,
                                            f.tool_output_chunks)>>)
            /\ frame' = [frame EXCEPT ![p] =
                  AfterCalls(AfterDispatch(f), f.calls)]
            /\ emitted' = emitted
       ELSE IF fun_2_raises(f.args, f.hpos)
       THEN Raised(p, f, "TypeError", <<>>)
       ELSE IF Truthy(yp.display)
       THEN /\ emitted' = [emitted EXCEPT ![p] = Append(@, ToolOut(yp.display))]
            /\ frame' = [frame EXCEPT ![p] =
                  [f EXCEPT !.pc = "y_disp", !.yield_part = yp]]
            /\ UNCHANGED <<history, owner>>
       ELSE /\ frame' = [frame EXCEPT ![p] =
                  [f EXCEPT !.tool_output_chunks = Accumulate(@, yp),
                            !.hpos = @ + 1]]
            /\ UNCHANGED <<history, owner, emitted>>
    /\ UNCHANGED <<requests, fed, clock, used>>

\* lines 179-219: next() on the handler; the item is normalized and, when
\* its display is truthy, yielded.  When the handler is exhausted the tool
\* message is appended and the argument buffer reset.
HandlerNext(p) ==
    LET f  == frame[p]
        yp == normalize(fun_2_item(f.args, f.hpos))
    IN
    /\ f.pc = "h_next"
    /\ IF f.hpos > fun_2_len
       THEN /\ Appended(p, <<ToolResultTurn(f.tool_id, f.tool_name,
                                            f.tool_output_chunks)>>)
            /\ frame' = [frame EXCEPT ![p] =
                  AfterCalls(AfterDispatch(f), f.calls)]
            /\ emitted' = emitted
       ELSE IF fun_2_raises(f.args, f.hpos)
       THEN Raised(p, f, "TypeError", <<>>)
       ELSE IF Truthy(yp.display)
       THEN /\ emitted' = [emitted EXCEPT ![p] = Append(@, ToolOut(yp.display))]
            /\ frame' = [frame EXCEPT ![p] =
                  [f EXCEPT !.pc = "y_disp", !.yield_part = yp]]
            /\ UNCHANGED <<history, owner>>
       ELSE /\ frame' = [frame EXCEPT ![p] =
                  [f EXCEPT !.tool_output_chunks = Accumulate(@, yp),
                            !.hpos = @ + 1]]
            /\ UNCHANGED <<history, owner, emitted>>
    /\ UNCHANGED <<requests, fed, clock, used>>

\* lines 207-209: resumed after yield display_value
ResumeDisplay(p) ==
    LET f == frame[p] IN
    /\ f.pc = "y_disp"
    /\ frame' = [frame EXCEPT ![p] =
          [f EXCEPT !.pc = "h_next",
                    !.tool_output_chunks = Accumulate(@, f.yield_part),
                    !.yield_part = Plain(NoneValue),
                    !.hpos = @ + 1]]
    /\ UNCHANGED <<history, owner, emitted, requests, fed, clock, used>>

\* KeyboardInterrupt while the handler is iterated
HandlerInterrupted(p) ==
    LET f == frame[p] IN
    /\ f.pc = "h_next"
    /\ Raised(p, f, "KeyboardInterrupt", <<>>)
    /\ UNCHANGED <<requests, fed, clock, used>>

\* lines 228-237
OpenFollowup(p) ==
    /\ frame[p].pc = "f_open"
    /\ requests' = Append(requests, Request(p, "followup"))
    /\ frame' = [frame EXCEPT ![p].pc = "f_pull", ![p].phase = 2]
    /\ UNCHANGED <<history, owner, emitted, fed, clock, used>>

\* line 228 raises, inside the try statement
OpenFollowupFails(p, e) ==
    /\ frame[p].pc = "f_open"
    /\ requests' = Append(requests, Request(p, "followup"))
    /\ Raised(p, frame[p], e, <<>>)
    /\ UNCHANGED <<fed, clock, used>>

\* lines 240-244: next(followup) returns a chunk
PullFollowup(p, ch) ==
    LET f == frame[p] IN
    /\ f.pc = "f_pull"
    /\ used < MaxInputs
    /\ used' = used + 1
    /\ IF ch.choices /\ ch.content # <<>>
       THEN /\ emitted' = [emitted EXCEPT ![p] = Append(@, TextOut(ch.content))]
            /\ frame' = [frame EXCEPT ![p] =
                  [f EXCEPT !.pc = "y_text", !.delta = ch.content]]
       ELSE UNCHANGED <<frame, emitted>>
    /\ UNCHANGED <<history, owner, requests, fed, clock>>

\* next(followup) raises StopIteration: the try body is complete
EndFollowup(p) ==
    LET f == frame[p] IN
    /\ f.pc = "f_pull"
    /\ frame' = [frame EXCEPT ![p].pc = "done"]
    /\ Appended(p, Finalize(p, f))
    /\ UNCHANGED <<emitted, requests, fed, clock, used>>

\* resumed after the sentinel of line 248: the finally clause runs
ResumeInterrupted(p) ==
    LET f == frame[p] IN
    /\ f.pc = "y_int"
    /\ frame' = [frame EXCEPT ![p].pc = "done"]
    /\ Appended(p, Finalize(p, f))
    /\ UNCHANGED <<emitted, requests, fed, clock, used>>

\* one step of invocation p
Step(p) ==
    \/ OpenPrimary(p)
    \/ \E e \in StreamErrors : OpenPrimaryFails(p, e)
    \/ \E ch \in Chunks : PullChunk(p, ch)
    \/ ResumeText(p)
    \/ EndPrimary(p)
    \/ \E e \in StreamErrors : StreamRaises(p, e)
    \/ \E t \in 0..MaxClock : NextToolCall(p, t)
    \/ HandlerNext(p)
    \/ ResumeDisplay(p)
    \/ HandlerInterrupted(p)
    \/ OpenFollowup(p)
    \/ \E e \in StreamErrors : OpenFollowupFails(p, e)
    \/ \E ch \in FollowChunks : PullFollowup(p, ch)
    \/ EndFollowup(p)
    \/ ResumeInterrupted(p)

\* the main loop of lines 258-269 exhausts one generator before it asks the
\* next question
Sequential(p) == \A o \in Asks : (o < p => Finished(o)) /\ (o > p => frame[o].pc = "idle")

Next ==
    /\ \E p \in Asks :
          \/ Sequential(p) /\ \E q \in Questions : Ask(p, q)
          \/ Step(p)
    /\ UNCHANGED <<loop, overlap>>

Spec == Init /\ [][Next]_vars

(***************************************************************************)
(* Overlapping invocations: a caller that holds two generators of          *)
(* ask_question and advances them in turn.  There is one thread, so a      *)
(* generator runs from one yield to the next while the other one is        *)
(* suspended at a yield, not yet started, or finished.                     *)
(***************************************************************************)
\* the two invocations the caller holds
Pair == {1, 2}

Suspended(p) ==
    frame[p].pc \in {"idle", "y_text", "y_disp", "y_int", "done", "raised"}

\* the thread may run invocation p
Interleaved(p) == \A o \in Asks \ {p} : Suspended(o)

\* invocations are numbered in the order in which they are started
InOrder(p) == \A o \in Asks : o < p => frame[o].pc # "idle"

\* a generator that is suspended at a yield does not count as active
Active_running(p) == ~Suspended(p)
\* p has been started and has not finished
Active(p) == frame[p].pc # "idle" /\ ~Finished(p)

NextOverlap ==
    /\ \E p \in Pair :
          /\ Interleaved(p)
          /\ \/ InOrder(p) /\ \E q \in Questions : Ask(p, q)
             \/ Step(p)
    /\ overlap' = (overlap \/ Cardinality({p \in Asks : Active(p)'}) > 1)
    /\ UNCHANGED loop

SpecOverlap == Init /\ [][NextOverlap]_vars

(***************************************************************************)
(* The loop of lines 179-211 on the items of an arbitrary handler: the     *)
(* normalization, the yield of the display value and the accumulation do   *)
(* not depend on which handler produced the item.                          *)
(***************************************************************************)
\* raw items: None, a str, and dicts with and without the keys display and
\* store, with and without other keys
RawItems ==
    { Plain(NoneValue), Plain(Str(<<"a">>)),
      Dict(<<>>, NoneValue, FALSE),
      Dict(<<"store">>, NoneValue, TRUE),
      Dict(<<"code", "foo">>, NoneValue, FALSE),
      Dict(<<"code", "store">>, NoneValue, TRUE),
      Dict(<<"display">>, Str(<<"b">>), FALSE) }
    \cup { Dict(<<"display", "store">>, d, st) :
              d \in {NoneValue, Str(<<"c">>), Map(<<>>)}, st \in BOOLEAN }

ItemSeqs == UNION {[1..n -> RawItems] : n \in 0..MaxItems}

\* lines 179-204: next() on the handler returns an item; it is normalized
\* and, when its display is truthy, yielded before it is accumulated
LoopNext ==
    LET raw == Head(loop.items)
        yp  == normalize(raw)
    IN
    /\ loop.pc = "next"
    /\ loop.items # <<>>
    /\ IF Truthy(yp.display)
       THEN loop' = [loop EXCEPT !.pc = "y_disp", !.yield_part = yp,
                                 !.shown = Append(@, yp.display)]
       ELSE loop' = [loop EXCEPT
                        !.items = Tail(@),
                        !.seen = Append(@, [raw |-> raw, item |-> yp]),
                        !.yield_part = yp,
                        !.tool_output_chunks = Accumulate(@, yp)]

\* lines 207-209: resumed after yield display_value
LoopResume ==
    /\ loop.pc = "y_disp"
    /\ loop' = [loop EXCEPT
                   !.pc = "next",
                   !.items = Tail(@),
                   !.seen = Append(@, [raw |-> Head(loop.items),
                                       item |-> loop.yield_part]),
                   !.tool_output_chunks = Accumulate(@, loop.yield_part)]

\* line 211: the handler is exhausted and the accumulator serialized
LoopEnd ==
    /\ loop.pc = "next"
    /\ loop.items = <<>>
    /\ loop' = [loop EXCEPT !.pc = "end",
                            !.tool_output_str = dumpsList(loop.tool_output_chunks)]

LoopInit ==
    /\ loop \in {NewLoop(its) : its \in ItemSeqs}
    /\ history = <<>>
    /\ owner = <<>>
    /\ frame = [p \in Asks |-> NewFrame]
    /\ emitted = [p \in Asks |-> <<>>]
    /\ requests = <<>>
    /\ fed = [p \in Asks |-> <<>>]
    /\ clock = 0
    /\ used = 0
    /\ overlap = FALSE

LoopStep ==
    /\ LoopNext \/ LoopResume \/ LoopEnd
    /\ UNCHANGED <<history, owner, frame, emitted, requests, fed, clock, used,
                   overlap>>

SpecLoop == LoopInit /\ [][LoopStep]_vars

(***************************************************************************)
(* Vocabulary of the properties.                                           *)
(***************************************************************************)
\* the positions of history that invocation p appended
TurnsOf(p) == {i \in 1..Len(history) : owner[i] = p}
Count(p, role) == Cardinality({i \in TurnsOf(p) : history[i].role = role})

\* the messages of one role that p appended, in order
RECURSIVE Pick(_, _, _)
Pick(p, role, n) ==
    IF n = 0 THEN <<>>
    ELSE IF owner[n] = p /\ history[n].role = role
    THEN Append(Pick(p, role, n - 1), history[n])
    ELSE Pick(p, role, n - 1)
TurnsWith(p, role) == Pick(p, role, Len(history))

\* p is the invocation that ran last
Latest(p) == \A o \in Asks : o > p => frame[o].pc = "idle"

\* the requests p made for a follow-up stream
Followups(p) ==
    Cardinality({i \in 1..Len(requests) :
                    requests[i].ask = p /\ requests[i].kind = "followup"})

\* the fragments after which p handed a call to the handler
Hits(p) == SelectSeq(fed[p], LAMBDA e : e.hit)

RECURSIVE Concat(_)
Concat(es) == IF es = <<>> THEN <<>> ELSE Head(es).piece \o Concat(Tail(es))

\* the argument text the stream sent for call c of invocation p
OwnText(p, c) == Concat(SelectSeq(fed[p], LAMBDA e : e.index = c))
CallsSeen(p) == {fed[p][i].index : i \in 1..Len(fed[p])}

\* every tool-call message of p is directly followed by its tool message
NoDanglingCall(p) ==
    \A i \in TurnsOf(p) :
        history[i].role = "assistant_tool_call" =>
            /\ i < Len(history)
            /\ history[i + 1].role = "tool"
            /\ history[i + 1].call_id = history[i].call_id

\* the values a complete run of fun_2(**args) asks to store
RECURSIVE StoredUpTo(_, _)
StoredUpTo(args, n) ==
    IF n = 0 THEN <<>>
    ELSE Accumulate(StoredUpTo(args, n - 1), normalize(fun_2_item(args, n)))
StoredBy(args) == StoredUpTo(args, fun_2_len)

\* the reassembly rule of the reference: append, parse the whole buffer,
\* hand off and empty the buffer when it parses
RECURSIVE Reassemble(_)
Reassemble(es) ==
    IF es = <<>> THEN [buf |-> <<>>, out |-> <<>>]
    ELSE LET prev == Reassemble(SubSeq(es, 1, Len(es) - 1))
             b    == prev.buf \o es[Len(es)].piece
             r    == loads(b)
         IN  IF r.ok
             THEN [buf |-> <<>>,
                   out |-> Append(prev.out, [hit |-> TRUE, args |-> r.val])]
             ELSE [buf |-> b,
                   out |-> Append(prev.out, [hit |-> FALSE, args |-> NoValue])]

(***************************************************************************)
(* C1  After a finished ask cycle with exactly one dispatch whose handler  *)
(* ran to exhaustion, the last four messages of history are user,          *)
(* assistant tool call, tool, assistant text, and the tool message carries *)
(* the call_id of the tool call.                                           *)
(***************************************************************************)
OneCompleteDispatch(p) ==
    /\ Finished(p) /\ Latest(p)
    /\ Count(p, "assistant_tool_call") = 1
    /\ Count(p, "tool") = 1

C1_TranscriptAdjacency ==
    \A p \in Asks :
        OneCompleteDispatch(p) =>
            LET n == Len(history) IN
            /\ n >= 4
            /\ \A i \in (n - 3)..n : owner[i] = p
            /\ history[n - 3].role = "user"
            /\ history[n - 2].role = "assistant_tool_call"
            /\ history[n - 1].role = "tool"
            /\ history[n].role = "assistant"
            /\ history[n - 1].call_id = history[n - 2].call_id

\* a second cycle with one dispatch and a follow-up stream has finished
C1_Witness ==
    /\ OneCompleteDispatch(2)
    /\ Followups(2) = 1
    /\ frame[2].pc = "done"

(***************************************************************************)
(* C2  With one ask cycle at a time, every tool message in history is      *)
(* directly preceded by an assistant tool-call message with the same       *)
(* call_id, whatever the number of dispatches.                             *)
(***************************************************************************)
C2_ToolResultFollowsItsCall ==
    \A i \in 1..Len(history) :
        history[i].role = "tool" =>
            /\ i > 1
            /\ history[i - 1].role = "assistant_tool_call"
            /\ history[i - 1].call_id = history[i].call_id
            /\ owner[i - 1] = owner[i]

\* one cycle has recorded two dispatches with different call ids
C2_Witness ==
    \E i, j \in 1..Len(history) :
        /\ i < j /\ owner[i] = owner[j]
        /\ history[i].role = "tool" /\ history[j].role = "tool"
        /\ history[i].call_id # history[j].call_id

(***************************************************************************)
(* C3  Every ask invocation that appended its user message appends exactly *)
(* one assistant text message before it ends, on every exit route.         *)
(* Stated as the claim; line 114 is outside the try statement, so a        *)
(* failure of the primary request leaves the user message unanswered.      *)
(***************************************************************************)
C3_OneAssistantTextPerAsk ==
    \A p \in Asks :
        Finished(p) =>
            /\ Count(p, "user") = 1
            /\ Count(p, "assistant") = 1

(***************************************************************************)
(* C4  After an ask cycle that was interrupted (in the primary stream, in  *)
(* the handler or in the follow-up stream) has finished, every tool-call   *)
(* message is directly followed by its tool message and the cycle ends     *)
(* with its assistant text message.  Stated as the claim; an interruption  *)
(* while the handler is iterated skips the tool message of line 213.       *)
(***************************************************************************)
C4_InterruptionLeavesTranscriptConsistent ==
    \A p \in Asks :
        (frame[p].pc = "done" /\ frame[p].exc = "KeyboardInterrupt") =>
            /\ NoDanglingCall(p)
            /\ Latest(p) => /\ owner[Len(history)] = p
                            /\ history[Len(history)].role = "assistant"

(***************************************************************************)
(* C5  A failure of the handler (at its call or while it is iterated)      *)
(* propagates out of ask, and no tool-call message is left without its     *)
(* directly following tool message.  Stated as the claim; the tool-call    *)
(* message of line 164 is appended before the handler runs and nothing     *)
(* pairs or removes it when the handler raises.                            *)
(***************************************************************************)
C5_HandlerFailureKeepsTranscriptConsistent ==
    \A p \in Asks :
        frame[p].exc = "TypeError" =>
            /\ frame[p].pc = "raised"
            /\ NoDanglingCall(p)

(***************************************************************************)
(* C6  Reassembly rule for the fragments of one call: each non-empty       *)
(* fragment is appended to the buffer and the whole buffer parsed; a       *)
(* fragment after which the buffer does not parse causes no dispatch, no   *)
(* message and no error; a dispatch happens exactly at each fragment after *)
(* which the buffer parses, with the value of the text accumulated since   *)
(* the previous dispatch, and the buffer is empty after each dispatch.     *)
(***************************************************************************)
OneCall(p) == Cardinality(CallsSeen(p)) <= 1

\* p is between two fragments: no dispatch is in progress
BetweenFragments(p) ==
    frame[p].pc \in {"pull", "calls", "y_text", "f_open", "f_pull"}

C6_ReassemblyRule ==
    \A p \in Asks :
        OneCall(p) =>
            LET ref   == Reassemble(fed[p])
                hits  == Hits(p)
                calls == TurnsWith(p, "assistant_tool_call")
            IN
            /\ \A i \in 1..Len(fed[p]) :
                  /\ fed[p][i].hit = ref.out[i].hit
                  /\ fed[p][i].args = ref.out[i].args
            /\ Len(calls) = Len(hits)
            /\ \A k \in 1..Len(calls) : calls[k].content = dumps(hits[k].args)
            /\ frame[p].exc = "TypeError" => fed[p][Len(fed[p])].hit
            /\ BetweenFragments(p) =>
                  /\ frame[p].partial_args = ref.buf
                  /\ Count(p, "tool") = Len(hits)

\* the fragments {"a":1 and ,"b":1} have produced exactly one dispatch, with
\* the joined arguments, and the buffer is empty again
C6_Witness ==
    \E p \in Asks :
        /\ Len(fed[p]) = 2
        /\ fed[p][1].piece = FragA /\ ~fed[p][1].hit
        /\ fed[p][2].piece = FragB /\ fed[p][2].hit
        /\ fed[p][2].args = loads(FragA \o FragB).val
        /\ Count(p, "tool") = 1
        /\ frame[p].pc = "pull" /\ frame[p].partial_args = <<>>

(***************************************************************************)
(* C7  When the fragments of two calls arrive interleaved, each call is    *)
(* reassembled from its own fragments only, so a call whose own argument   *)
(* text is one valid object is dispatched once, with those arguments.      *)
(* Stated as the claim; partial_args of line 128 is one buffer for all     *)
(* calls of the stream.                                                    *)
(***************************************************************************)
C7_BufferPerCall ==
    \A p \in Asks :
        (frame[p].pc = "done" /\ frame[p].exc = None
            /\ Cardinality(CallsSeen(p)) = 2) =>
            \A c \in CallsSeen(p) :
                LET own == loads(OwnText(p, c)) IN
                own.ok =>
                    /\ Len(SelectSeq(Hits(p), LAMBDA e : e.index = c)) = 1
                    /\ \A i \in 1..Len(fed[p]) :
                          (fed[p][i].hit /\ fed[p][i].index = c) =>
                              fed[p][i].args = own.val

(***************************************************************************)
(* C8  The content of the tool message of every dispatch is the            *)
(* serialization of exactly the values that dispatch's own handler run     *)
(* asked to store.  Stated as the claim; tool_output_chunks of line 131 is *)
(* created once per ask and keeps the values of the earlier dispatches.    *)
(***************************************************************************)
C8_AccumulatorPerDispatch ==
    \A p \in Asks :
        LET results == TurnsWith(p, "tool")
            hits    == Hits(p)
        IN  \A k \in 1..Len(results) :
                results[k].content = dumpsList(StoredBy(hits[k].args))

(***************************************************************************)
(* C9  Follow-up gating: an ask cycle requests at most one follow-up       *)
(* stream, only after the primary stream is exhausted, and exactly when    *)
(* some stored output was accumulated and a tool name was recorded; with   *)
(* no accumulated output no follow-up is requested.                        *)
(***************************************************************************)
\* the primary stream of p ended by exhaustion
PrimaryExhausted(p) ==
    \/ frame[p].pc \in {"f_open", "f_pull"}
    \/ frame[p].pc = "y_text" /\ frame[p].phase = 2
    \/ frame[p].pc = "done" /\ frame[p].exc = None

C9_FollowupGating ==
    \A p \in Asks :
        /\ Followups(p) <= 1
        /\ Followups(p) = 1 =>
              /\ frame[p].pc \in {"f_pull", "y_text", "y_int", "done", "raised"}
              /\ frame[p].pc = "y_text" => frame[p].phase = 2
              /\ frame[p].tool_output_chunks # <<>>
              /\ frame[p].tool_name # None
        /\ (PrimaryExhausted(p) /\ frame[p].pc # "f_open") =>
              (Followups(p) = 1 <=>
                  (frame[p].tool_output_chunks # <<>>
                      /\ frame[p].tool_name # None))

\* a cycle with two dispatches has finished after one follow-up stream
C9_Witness ==
    \E p \in Asks :
        /\ frame[p].pc = "done" /\ frame[p].exc = None
        /\ Count(p, "tool") = 2
        /\ Followups(p) = 1
        /\ frame[p].phase = 2

(***************************************************************************)
(* C10  No-tool path: an ask cycle whose primary stream carried no         *)
(* tool-call delta appends exactly two messages, user then assistant text, *)
(* and requests no follow-up stream.                                       *)
(***************************************************************************)
\* p opened its primary stream, has finished, and saw no tool-call delta
TextOnlyCycle(p) ==
    /\ Finished(p)
    /\ frame[p].phase >= 1
    /\ frame[p].tool_name = None

C10_NoToolPath ==
    \A p \in Asks :
        TextOnlyCycle(p) =>
            /\ \E i \in 1..Len(history) :
                  /\ TurnsOf(p) = {i, i + 1}
                  /\ history[i].role = "user"
                  /\ history[i + 1].role = "assistant"
            /\ Count(p, "assistant_tool_call") = 0
            /\ Count(p, "tool") = 0
            /\ Followups(p) = 0

\* a cycle of two text deltas has finished normally
C10_Witness ==
    \E p \in Asks :
        /\ TextOnlyCycle(p)
        /\ frame[p].pc = "done" /\ frame[p].exc = None
        /\ Len(frame[p].collected) = 2

(***************************************************************************)
(* C11  An interruption raised inside the try statement (while a stream is *)
(* pulled, and likewise while the handler runs or the follow-up is opened) *)
(* is not propagated: the sentinel is the last fragment ask_question       *)
(* emits, no further stream is requested once the interruption happened,   *)
(* and the closing assistant message holds exactly the text forwarded      *)
(* before the interruption (the empty string when there was none).         *)
(***************************************************************************)
\* the model text among the fragments es, concatenated in order
RECURSIVE TextIn(_)
TextIn(es) ==
    IF es = <<>> THEN <<>>
    ELSE (IF Head(es).src = "text" THEN Head(es).val.body ELSE <<>>)
         \o TextIn(Tail(es))

\* p was interrupted after it had opened its primary stream
Interrupted(p) ==
    frame[p].exc = "KeyboardInterrupt" /\ frame[p].phase >= 1

RequestsOf(p) == SelectSeq(requests, LAMBDA r : r.ask = p)

Recovered(p) ==
    LET out == emitted[p] IN
    /\ frame[p].pc \in {"y_int", "done"}
    /\ out # <<>>
    /\ \A i \in 1..Len(out) : out[i] = Sentinel <=> i = Len(out)
    /\ frame[p].collected = TextIn(out)
    /\ frame[p].pc = "done" =>
          /\ Count(p, "assistant") = 1
          /\ \E i \in TurnsOf(p) :
                /\ \A j \in TurnsOf(p) : j <= i
                /\ history[i] = AssistantTextTurn(TextIn(out))

C11_InterruptionRecovery ==
    [][\A p \in Asks :
          /\ Interrupted(p) => RequestsOf(p)' = RequestsOf(p)
          /\ Interrupted(p)' => Recovered(p)']_vars

\* the primary stream was interrupted after one text delta, and the cycle
\* has finished
C11_Witness ==
    \E p \in Asks :
        /\ Interrupted(p)
        /\ frame[p].pc = "done"
        /\ frame[p].tool_name = None
        /\ Followups(p) = 0
        /\ emitted[p] = <<TextOut(<<"t">>), Sentinel>>
        /\ history[Len(history)] = AssistantTextTurn(<<"t">>)

(***************************************************************************)
(* C12  At every point of the handler loop the accumulator                 *)
(* tool_output_chunks holds, in their original order, the display values   *)
(* of exactly the normalized items handled so far whose store flag is      *)
(* true: an item with store false is never accumulated, an item with store *)
(* true is accumulated even when its display is empty.                     *)
(***************************************************************************)
\* the positions of the handled items that ask to be stored
StoredAt == {i \in 1..Len(loop.seen) : loop.seen[i].item.store = TRUE}

C12_AccumulatorOrdering ==
    /\ Len(loop.tool_output_chunks) = Cardinality(StoredAt)
    /\ \A i \in StoredAt :
          loop.tool_output_chunks[Cardinality({j \in StoredAt : j <= i})]
              = loop.seen[i].item.display

\* a stored item, an item that is shown but not stored, and a stored item
\* with an empty display have been handled
C12_Witness ==
    /\ loop.pc = "end"
    /\ Len(loop.seen) = 3
    /\ loop.seen[1].item.store /\ Truthy(loop.seen[1].item.display)
    /\ ~loop.seen[2].item.store /\ Truthy(loop.seen[2].item.display)
    /\ loop.seen[3].item.store /\ ~Truthy(loop.seen[3].item.display)
    /\ loop.tool_output_chunks
          = <<loop.seen[1].item.display, loop.seen[3].item.display>>

(***************************************************************************)
(* C13  The call_id and the name written into the tool-call message and    *)
(* the tool message of a dispatched call are an id and a name the stream   *)
(* supplied on some delta of that call; the id made from the clock and the *)
(* name "worlds" are recorded only for a call whose deltas never carried   *)
(* an id or a name, and such a call is still dispatched.                   *)
(***************************************************************************)
\* the positions of fed[p] at which a call was handed to the handler
HitAt(p) == {i \in 1..Len(fed[p]) : fed[p][i].hit}

\* the deltas of call c among the first i deltas p processed
DeltasOf(p, c, i) == {j \in 1..i : fed[p][j].index = c}
IdsFor(p, c, i) == {fed[p][j].id : j \in DeltasOf(p, c, i)} \ {NoId}
NamesFor(p, c, i) == {fed[p][j].name : j \in DeltasOf(p, c, i)} \ {None}

\* message t carries the metadata the stream supplied for the call that
\* was dispatched at position i of fed[p]
Provenance(p, i, t) ==
    LET ids   == IdsFor(p, fed[p][i].index, i)
        names == NamesFor(p, fed[p][i].index, i)
    IN  /\ IF ids # {} THEN t.call_id \in ids ELSE t.call_id.src = "clock"
        /\ IF names # {} THEN t.name \in names ELSE t.name = "worlds"

C13_CallMetadataProvenance ==
    \A p \in Asks :
        LET calls   == TurnsWith(p, "assistant_tool_call")
            results == TurnsWith(p, "tool")
        IN  /\ Len(calls) = Cardinality(HitAt(p))
            /\ \A i \in HitAt(p) :
                  LET k == Cardinality({j \in HitAt(p) : j <= i})
                  IN  /\ Provenance(p, i, calls[k])
                      /\ k <= Len(results) => Provenance(p, i, results[k])

(***************************************************************************)
(* C14  Two calls of one ask cycle that were dispatched without an id from *)
(* the stream are recorded in history with different call_id values,       *)
(* whatever the clock does between the two dispatches.                     *)
(***************************************************************************)
C14_SynthesizedIdsDistinct ==
    \A p \in Asks :
        LET calls == TurnsWith(p, "assistant_tool_call")
            n     == Len(fed[p])
            k(i)  == Cardinality({j \in HitAt(p) : j <= i})
        IN  \A i, j \in HitAt(p) :
                ( /\ i < j
                  /\ fed[p][i].index # fed[p][j].index
                  /\ IdsFor(p, fed[p][i].index, n) = {}
                  /\ IdsFor(p, fed[p][j].index, n) = {} )
                => calls[k(i)].call_id # calls[k(j)].call_id

(***************************************************************************)
(* C15  A call is handed to the handler registered under the recorded tool *)
(* name.  When that name is not the name of a registered tool (the         *)
(* placeholder "worlds" included), no handler runs: the invocation ends    *)
(* at once with the error UnknownTool.                                     *)
(***************************************************************************)
\* the tools offered to the model at line 122
Registered == {"fun_2"}

C15_UnknownToolFailsFast ==
    \A p \in Asks :
        LET calls == TurnsWith(p, "assistant_tool_call") IN
        \A i \in HitAt(p) :
            LET k == Cardinality({j \in HitAt(p) : j <= i}) IN
            calls[k].name \notin Registered =>
                /\ frame[p].pc = "raised"
                /\ frame[p].exc = "UnknownTool"
                /\ i = Len(fed[p])
                /\ Len(TurnsWith(p, "tool")) < k

(***************************************************************************)
(* C16  The normalized form of every raw item follows the reference rules: *)
(* an item that is not a dict becomes {display: item, store: false}; a     *)
(* dict without store gets store false; a dict without display gets as     *)
(* display the dict of all its keys other than store, or "" when there is  *)
(* no such key; a dict with both display and store is left as it is.       *)
(***************************************************************************)
\* the keys of the raw dict r other than store
Others(r) == SelectSeq(r.keys, LAMBDA k : k # "store")

\* n is what the reference rules make of the raw item r
Reference(r, n) ==
    /\ ~r.isMap => n.display = r.val /\ n.store = FALSE
    /\ (r.isMap /\ ~HasKey(r, "store")) => n.store = FALSE
    /\ (r.isMap /\ ~HasKey(r, "display")) =>
          n.display = IF Others(r) # <<>> THEN Map(Others(r)) ELSE Str(<<>>)
    /\ (r.isMap /\ HasKey(r, "display") /\ HasKey(r, "store")) => n = r

LastTurn(p) == history[CHOOSE i \in TurnsOf(p) : \A j \in TurnsOf(p) : j <= i]

\* p has appended a tool-call message and not yet its tool message, and is
\* still running the try body
InDispatch(p) ==
    /\ TurnsOf(p) # {}
    /\ LastTurn(p).role = "assistant_tool_call"
    /\ frame[p].pc \notin {"y_int", "done", "raised"}

\* what one step adds to history for p and to the output of p
NewTurns(p) ==
    LET at == {i \in (Len(history) + 1)..Len(history') : owner'[i] = p}
    IN  {history'[i] : i \in at}
NewOutput(p) ==
    {emitted'[p][i] : i \in (Len(emitted[p]) + 1)..Len(emitted'[p])}

DispatchOrder(p) ==
    /\ \A t \in NewTurns(p) :
          t.role = "assistant_tool_call" =>
              /\ frame[p].pc = "calls"
              /\ ~InDispatch(p)
              /\ NewOutput(p) = {}
              /\ frame'[p].pc = "h_next" => frame'[p].hpos = 1
    /\ \A o \in NewOutput(p) : o.src = "tool" => InDispatch(p)
    /\ \A t \in NewTurns(p) :
          t.role = "tool" =>
              /\ InDispatch(p)
              /\ frame[p].pc = "h_next" /\ frame[p].hpos > fun_2_len
              /\ history[Len(history)] = LastTurn(p)
              /\ t.call_id = LastTurn(p).call_id
              /\ history' = Append(history, t)
    /\ InDispatch(p) =>
          /\ used' = used
          /\ \A t \in NewTurns(p) :
                \/ t.role = "tool"
                \/ t.role = "assistant" /\ frame'[p].pc = "raised"

C17_DispatchEventOrder == [][\A p \in Asks : DispatchOrder(p)]_vars

\* a dispatch is complete: the seven non-empty display values of fun_2 were
\* yielded between the two appends, and the stream is being read again
C17_Witness ==
    \E p \in Asks :
        /\ frame[p].pc = "pull"
        /\ Len(TurnsWith(p, "assistant_tool_call")) = 1
        /\ Len(TurnsWith(p, "tool")) = 1
        /\ LastTurn(p).role = "tool"
        /\ Len(emitted[p]) = 7
        /\ \A i \in 1..7 : emitted[p][i].src = "tool"

(***************************************************************************)
(* C18  The display value of every normalized item is yielded to the       *)
(* caller exactly once, in the order of the items and before the next item *)
(* is pulled, if and only if it is non-empty; an empty display (None, "",  *)
(* {}) is never yielded; and whether an item is accumulated depends on its *)
(* store flag only, not on whether it was yielded.                         *)
(***************************************************************************)
\* the positions of the handled items with a non-empty display
ShownAt ==
    {i \in 1..Len(loop.seen) :
        loop.seen[i].item.display \notin {NoneValue, Str(<<>>), Map(<<>>)}}

Separated(p, i, k) == \E j \in (i + 1)..(k - 1) : owner[j] # p

\* the message at k is the first one p appended after the one at i
NextOf(p, i, k) ==
    /\ i < k
    /\ owner[i] = p /\ owner[k] = p
    /\ \A j \in (i + 1)..(k - 1) : owner[j] # p

CallSeparated ==
    \E p \in Asks : \E i, k \in TurnsOf(p) :
        /\ NextOf(p, i, k)
        /\ history[i].role = "assistant_tool_call"
        /\ history[k].role = "tool"
        /\ Separated(p, i, k)

TextSeparated ==
    \E p \in Asks : \E i, k \in TurnsOf(p) :
        /\ i < k
        /\ history[i].role = "user"
        /\ history[k].role = "assistant"
        /\ Separated(p, i, k)

=============================================================================
